---- MODULE Spec2Model ----
(***************************************************************************)
(* Model of the parsing engine of swc_core/src/ast_parser.rs (AstParser,   *)
(* SwcErrorBuffer, SwcDiagnosticBuffer) and of the plugin operations of    *)
(* src/lib.rs that are built on it (op_parse_ts, ops_extract_dependencies).*)
(*                                                                         *)
(* The swc lexer/parser is an external library.  A source text is modelled *)
(* by the sequence of things the parser meets in it, left to right:        *)
(*   "dyn"    a well-formed statement (a dynamic import of "./m")          *)
(*   "bad"    a recoverable syntax error: the parser reports a diagnostic  *)
(*   "odd"    through the Handler (hence through the Emitter) and goes on  *)
(*   "fatal"  an unrecoverable syntax error: Parser::parse_module returns  *)
(*            Err(DiagnosticBuilder) and stops; nothing is emitted         *)
(* Strings that are formatted or serialized are sequences of characters.   *)
(***************************************************************************)
EXTENDS Integers, Sequences, FiniteSets, TLC

\* ---------------------------------------------------------------- bounds
\* longest source text handed to a direct parse_module call
MaxLen == 2
\* longest source text handed to parse_module where continuations parse again
MaxNestLen == 1
\* longest source text handed to a plugin operation
MaxOpLen == 3
\* number of parse_module calls made on the long-lived parsers
MaxCalls == 2
\* deepest nesting of parse_module calls (a continuation may parse again)
MaxDepth == 2

\* ------------------------------------------------------------ basic data
Tokens == {"dyn", "bad", "odd", "fatal"}

SeqUpTo(S, n) == UNION {[1..k -> S] : k \in 0..n}

\* direct calls tell records apart by their spans, so that one kind of
\* recoverable error is enough there
DirectTokens == {"dyn", "bad", "fatal"}

Sources == SeqUpTo(DirectTokens, MaxLen)

NestSources == SeqUpTo(DirectTokens, MaxNestLen)

OpSources == SeqUpTo(Tokens, MaxOpLen)

\* the long-lived AstParser values
Parsers == {1, 2}

\* GLOBALS holds no Globals outside every GLOBALS.set
NoGlobals == 0

\* the message of the diagnostic the parser builds for a token
Message(tok) ==
    CASE tok = "bad" -> <<"E", "1">>
      [] tok = "odd" -> <<"E", "2">>
      [] tok = "fatal" -> <<"E", "x">>
      [] OTHER -> <<>>

\* a Diagnostic: its message and its span (source file of the source map,
\* offset in that file)
Diagnostic(tok, file, pos) == [message |-> Message(tok), file |-> file, pos |-> pos]

NoDiagnostic == [message |-> <<>>, file |-> 0, pos |-> 0]

\* Result<swc_ecma_ast::Module, _>: tag "Ok" carries module, tag "Builder"
\* carries the parser's DiagnosticBuilder (before map_err), tag "Err"
\* carries a SwcDiagnosticBuffer; tag "Deps" is the Ok of a dependency
\* analysis; tag "None" is no value yet.
NoResult == [tag |-> "None", module |-> <<>>, builder |-> NoDiagnostic,
             diagnostics |-> <<>>, deps |-> <<>>]

OkModule(m) == [NoResult EXCEPT !.tag = "Ok", !.module = m]

ErrBuilder(d) == [NoResult EXCEPT !.tag = "Builder", !.builder = d]

ErrBuffer(ds) == [NoResult EXCEPT !.tag = "Err", !.diagnostics = ds]

OkDeps(ds) == [NoResult EXCEPT !.tag = "Deps", !.deps = ds]

\* ----------------------------------------------------------------- state
VARIABLES
    buffered_error,   \* per AstParser: the Vec behind Arc<RwLock<SwcDiagnosticBuffer>>
    source_map,       \* per AstParser: number of source files registered
    active,           \* the Globals that swc_common::GLOBALS holds on this thread
    stack,            \* the parse_module calls in progress, innermost last
    ncalls,           \* parse_module calls made so far on the long-lived parsers
    op,               \* the plugin operation in progress
    opout,            \* what the last plugin operation returned
    emitted,          \* history: per AstParser, every record handed to emit
    failures,         \* history: per AstParser, the Err buffers delivered so far
    delivered,        \* history: the last value handed to a continuation
    done              \* history: the last parse_module call that returned

vars == <<buffered_error, source_map, active, stack, ncalls, op, opout,
          emitted, failures, delivered, done>>

NoOp == [name |-> "none", src |-> <<>>, dynamic |-> FALSE]

NoOut == [name |-> "none", src |-> <<>>, dynamic |-> FALSE, result |-> NoResult,
          out |-> <<>>]

NoDelivery == [p |-> 0, src |-> <<>>, result |-> NoResult,
               live |-> <<>>, depth |-> 0]

NotDone == [p |-> 0, src |-> <<>>, cb |-> "none", cbcalls |-> 0, cbret |-> NoResult,
            ret |-> NoResult, result |-> NoResult, buffer |-> <<>>,
            before |-> 0, after |-> 0, depth |-> 0]

\* AstParser::new(): an empty buffer wired into the handler, an empty source
\* map, a Globals of its own (named after the parser)
Init ==
    /\ buffered_error = [p \in Parsers |-> <<>>]
    /\ source_map = [p \in Parsers |-> 0]
    /\ active = NoGlobals
    /\ stack = <<>>
    /\ ncalls = 0
    /\ op = NoOp
    /\ opout = NoOut
    /\ emitted = [p \in Parsers |-> <<>>]
    /\ failures = [p \in Parsers |-> <<>>]
    /\ delivered = NoDelivery
    /\ done = NotDone

\* ------------------------------------------------- buffer and formatting
EmitFront(diagnostics, db) == <<db>> \o diagnostics

\* Emitter::emit: push a clone of the diagnostic at the end of the Vec
Emit(diagnostics, db) == Append(diagnostics, db)

FromTake(live) == [value |-> live, left |-> <<>>]

\* From<SwcErrorBuffer> for SwcDiagnosticBuffer: clone the Vec under the read
\* lock; value is the clone, left is what the lock still holds
From(live) == [value |-> live, left |-> live]

CancelEmits(live, err) == Emit(live, err)

\* DiagnosticBuilder::cancel on the parser's error: the builder is dropped
\* unemitted, the emitter's buffer is what it was
Cancel(live, err) == live

RECURSIVE JoinSpace(_)
JoinSpace(msgs) ==
    IF msgs = <<>> THEN <<>>
    ELSE IF Len(msgs) = 1 THEN msgs[1]
    ELSE msgs[1] \o <<" ">> \o JoinSpace(Tail(msgs))

RECURSIVE Join(_)
\* [String]::join(",")
Join(msgs) ==
    IF msgs = <<>> THEN <<>>
    ELSE IF Len(msgs) = 1 THEN msgs[1]
    ELSE msgs[1] \o <<",">> \o Join(Tail(msgs))

DisplaySpaced(diagnostics) ==
    JoinSpace([i \in 1..Len(diagnostics) |-> diagnostics[i].message])

\* Display for SwcDiagnosticBuffer (to_string): the messages, in buffer order,
\* joined with ","; f.pad with no width or precision writes the string as is
Display(diagnostics) ==
    Join([i \in 1..Len(diagnostics) |-> diagnostics[i].message])

RECURSIVE Escape(_)
\* serde_json string escaping of the characters that occur here
Escape(s) ==
    IF s = <<>> THEN <<>>
    ELSE (IF Head(s) \in {"\"", "\\"} THEN <<"\\", Head(s)>> ELSE <<Head(s)>>)
         \o Escape(Tail(s))

\* serde_json::to_string / to_vec of a string: quoted and escaped
JsonString(s) == <<"\"">> \o Escape(s) \o <<"\"">>

RECURSIVE JsonItems(_)
JsonItems(ss) ==
    IF ss = <<>> THEN <<>>
    ELSE IF Len(ss) = 1 THEN JsonString(ss[1])
    ELSE JsonString(ss[1]) \o <<",">> \o JsonItems(Tail(ss))

\* serde_json::to_string of a list of strings
JsonList(ss) == <<"[">> \o JsonItems(ss) \o <<"]">>

RECURSIVE ModuleItems(_)
ModuleItems(m) ==
    IF m = <<>> THEN <<>>
    ELSE IF Len(m) = 1 THEN JsonString(<<m[1]>>)
    ELSE JsonString(<<m[1]>>) \o <<",">> \o ModuleItems(Tail(m))

\* serde_json::to_string of a Module: a JSON object holding the body
JsonModule(m) == <<"{">> \o ModuleItems(m) \o <<"}">>

\* ------------------------------------------------------- parse_module
Top == stack[Len(stack)]

Running(pc) == stack # <<>> /\ Top.pc = pc

SetTop(f) == [stack EXCEPT ![Len(stack)] = f]

\* the frame of a parse_module(file_name, source_code, callback) call on
\* AstParser p, before its first statement
Frame(p, src, cb) ==
    [p |-> p, src |-> src, cb |-> cb, pc |-> "set", pos |-> 1, file |-> 0,
     saved |-> NoGlobals, module |-> <<>>, parse_result |-> NoResult,
     cbcalls |-> 0, cbret |-> NoResult, before |-> active]

\* a caller outside every parse calls parse_module on a long-lived parser
Call(p, src, cb) ==
    /\ stack = <<>>
    /\ op.name = "none"
    /\ ncalls < MaxCalls
    /\ cb = "nest" => (MaxDepth > 1 /\ ncalls + 1 < MaxCalls)
    /\ stack' = <<Frame(p, src, cb)>>
    /\ ncalls' = ncalls + 1
    /\ delivered' = NoDelivery
    /\ done' = NotDone
    /\ UNCHANGED <<buffered_error, source_map, active, op, opout, emitted, failures>>

\* swc_common::GLOBALS.set(&self.globals, ..) on entry: the scoped thread
\* local remembers the value it held and holds self.globals for the closure
GlobalsSetEnter(globals, current) == [saved |-> current, active |-> globals]

GlobalsSet ==
    /\ Running("set")
    /\ LET e == GlobalsSetEnter(Top.p, active) IN
        /\ active' = e.active
        /\ stack' = SetTop([Top EXCEPT !.saved = e.saved, !.pc = "source"])
    /\ UNCHANGED <<buffered_error, source_map, ncalls, op, opout, emitted,
                   failures, delivered, done>>

\* self.source_map.new_source_file(..); then the handle on the buffer, the
\* session, the syntax, the lexer and the parser are built
NewSourceFile ==
    /\ Running("source")
    /\ source_map' = [source_map EXCEPT ![Top.p] = @ + 1]
    /\ stack' = SetTop([Top EXCEPT !.file = source_map[Top.p] + 1, !.pc = "parse"])
    /\ UNCHANGED <<buffered_error, active, ncalls, op, opout, emitted, failures,
                   delivered, done>>

\* parser.parse_module() parses a well-formed item
ParseItem ==
    /\ Running("parse")
    /\ Top.pos <= Len(Top.src)
    /\ Top.src[Top.pos] = "dyn"
    /\ stack' = SetTop([Top EXCEPT !.module = Append(@, Top.src[Top.pos]),
                                   !.pos = @ + 1])
    /\ UNCHANGED <<buffered_error, source_map, active, ncalls, op, opout, emitted,
                   failures, delivered, done>>

\* parser.parse_module() reports a recoverable error: the handler hands the
\* diagnostic to the emitter, and parsing goes on
ParseEmit ==
    /\ Running("parse")
    /\ Top.pos <= Len(Top.src)
    /\ Top.src[Top.pos] \in {"bad", "odd"}
    /\ LET db == Diagnostic(Top.src[Top.pos], Top.file, Top.pos) IN
        /\ buffered_error' = [buffered_error EXCEPT ![Top.p] = Emit(@, db)]
        /\ emitted' = [emitted EXCEPT ![Top.p] = Append(@, db)]
    /\ stack' = SetTop([Top EXCEPT !.pos = @ + 1])
    /\ UNCHANGED <<source_map, active, ncalls, op, opout, failures, delivered, done>>

\* parser.parse_module() gives up: Err(DiagnosticBuilder), not emitted
ParseFail ==
    /\ Running("parse")
    /\ Top.pos <= Len(Top.src)
    /\ Top.src[Top.pos] = "fatal"
    /\ stack' = SetTop([Top EXCEPT
            !.parse_result = ErrBuilder(Diagnostic("fatal", Top.file, Top.pos)),
            !.pc = "map_err"])
    /\ UNCHANGED <<buffered_error, source_map, active, ncalls, op, opout, emitted,
                   failures, delivered, done>>

\* parser.parse_module() reaches the end of the input: Ok(Module)
ParseEnd ==
    /\ Running("parse")
    /\ Top.pos > Len(Top.src)
    /\ stack' = SetTop([Top EXCEPT !.parse_result = OkModule(Top.module),
                                   !.pc = "map_err"])
    /\ UNCHANGED <<buffered_error, source_map, active, ncalls, op, opout, emitted,
                   failures, delivered, done>>

\* .map_err(move |mut err| { err.cancel(); SwcDiagnosticBuffer::from(buffered_err) })
MapErr ==
    /\ Running("map_err")
    /\ IF Top.parse_result.tag = "Builder"
       THEN LET cancelled == Cancel(buffered_error[Top.p], Top.parse_result.builder)
                snapshot == From(cancelled)
            IN /\ buffered_error' = [buffered_error EXCEPT ![Top.p] = snapshot.left]
               /\ stack' = SetTop([Top EXCEPT !.parse_result = ErrBuffer(snapshot.value),
                                              !.pc = "callback"])
       ELSE /\ buffered_error' = buffered_error
            /\ stack' = SetTop([Top EXCEPT !.pc = "callback"])
    /\ UNCHANGED <<source_map, active, ncalls, op, opout, emitted, failures,
                   delivered, done>>

\* the module path a dynamic import names
ModPath == <<".", "/", "m">>

\* the dependency visitor: the targets of the dynamic imports, when asked for
Dependencies(module, dynamic) ==
    IF dynamic THEN [i \in 1..Len(module) |-> ModPath] ELSE <<>>

\* the closure of analyzer::analyze_dependencies: the dependencies of the
\* module, or the error as it is
AnalyzeClosure(parse_result, dynamic) ==
    IF parse_result.tag = "Ok"
    THEN OkDeps(Dependencies(parse_result.module, dynamic))
    ELSE parse_result

\* the closure of parser::parse_ts gives back the value it is given
ParseTsClosure(parse_result) == parse_result

\* the closure of parser::parse_js gives back the value it is given
ParseJsClosure(parse_result) == parse_result

\* a caller's closure |r| r.is_ok()
IsOk(parse_result) ==
    [NoResult EXCEPT !.tag = IF parse_result.tag = "Ok" THEN "true" ELSE "false"]

\* what the continuation F returns for the value it is given (R); the
\* closures "id" and "nest" give the value back
CallbackValue(cb, parse_result, dynamic) ==
    CASE cb = "deps" -> AnalyzeClosure(parse_result, dynamic)
      [] cb = "parse_ts" -> ParseTsClosure(parse_result)
      [] cb = "parse_js" -> ParseJsClosure(parse_result)
      [] cb = "is_ok" -> IsOk(parse_result)
      [] OTHER -> parse_result

Deliver(f) ==
    /\ delivered' = [p |-> f.p, src |-> f.src, result |-> f.parse_result,
                     live |-> buffered_error[f.p], depth |-> Len(stack)]
    /\ failures' = IF f.parse_result.tag = "Err"
                   THEN [failures EXCEPT ![f.p] = Append(@, f.parse_result.diagnostics)]
                   ELSE failures

\* callback(parse_result), for a continuation that does not parse
Callback ==
    /\ Running("callback")
    /\ Top.cb # "nest"
    /\ Deliver(Top)
    /\ stack' = SetTop([Top EXCEPT
            !.cbcalls = @ + 1,
            !.cbret = CallbackValue(Top.cb, Top.parse_result, op.dynamic),
            !.pc = "reset"])
    /\ UNCHANGED <<buffered_error, source_map, active, ncalls, op, opout, emitted, done>>

\* callback(parse_result), for a continuation that itself calls
\* parse_module on a long-lived parser before it returns
CallbackNest(q, src, cb) ==
    /\ Running("callback")
    /\ Top.cb = "nest"
    /\ Len(stack) < MaxDepth
    /\ ncalls < MaxCalls
    /\ cb = "nest" => (Len(stack) + 1 < MaxDepth /\ ncalls + 1 < MaxCalls)
    /\ Deliver(Top)
    /\ stack' = Append(SetTop([Top EXCEPT !.cbcalls = @ + 1, !.pc = "in_callback"]),
                       Frame(q, src, cb))
    /\ ncalls' = ncalls + 1
    /\ UNCHANGED <<buffered_error, source_map, active, op, opout, emitted, done>>

\* the nested call has returned and the continuation returns
CallbackResume ==
    /\ Running("in_callback")
    /\ stack' = SetTop([Top EXCEPT
            !.cbret = CallbackValue(Top.cb, Top.parse_result, op.dynamic),
            !.pc = "reset"])
    /\ UNCHANGED <<buffered_error, source_map, active, ncalls, op, opout, emitted,
                   failures, delivered, done>>

GlobalsSetLeaks(saved, current) == current

\* GLOBALS.set on exit: the scoped thread local is given back the value it
\* held on entry
GlobalsSetExit(saved, current) == saved

ReturnsParseResult(f) == f.parse_result

\* the closure's value, callback(parse_result), is what parse_module returns
ReturnValue(f) == f.cbret

\* the closure ends, GLOBALS.set restores and parse_module returns
GlobalsReset ==
    /\ Running("reset")
    /\ active' = GlobalsSetExit(Top.saved, active)
    /\ done' = [p |-> Top.p, src |-> Top.src, cb |-> Top.cb, cbcalls |-> Top.cbcalls,
                cbret |-> Top.cbret, ret |-> ReturnValue(Top),
                result |-> Top.parse_result, buffer |-> buffered_error[Top.p],
                before |-> Top.before, after |-> active', depth |-> Len(stack)]
    /\ stack' = SubSeq(stack, 1, Len(stack) - 1)
    /\ UNCHANGED <<buffered_error, source_map, ncalls, op, opout, emitted, failures,
                   delivered>>

\* ---------------------------------------------------- plugin operations
\* the AstParser a plugin operation constructs for its one parse
OpParser == 1

\* parser::parse_ts and analyzer::analyze_dependencies begin: AstParser::new()
\* and parse_module("..", &src, closure)
OpBegin(name, cb, src, dynamic) ==
    /\ stack = <<>>
    /\ op.name = "none"
    /\ op' = [name |-> name, src |-> src, dynamic |-> dynamic]
    /\ opout' = NoOut
    /\ buffered_error' = [buffered_error EXCEPT ![OpParser] = <<>>]
    /\ source_map' = [source_map EXCEPT ![OpParser] = 0]
    /\ emitted' = [emitted EXCEPT ![OpParser] = <<>>]
    /\ failures' = [failures EXCEPT ![OpParser] = <<>>]
    /\ delivered' = NoDelivery
    /\ done' = NotDone
    /\ stack' = <<Frame(OpParser, src, cb)>>
    /\ UNCHANGED <<active, ncalls>>

\* op_parse: decode ParseArguments, call parser::parse_js(params.src)
OpParse(src) == OpBegin("parse", "parse_js", src, FALSE)

\* op_parse_ts: decode ParseArguments, call parser::parse_ts(params.src)
OpParseTs(src) == OpBegin("parse_ts", "parse_ts", src, FALSE)

\* ops_extract_dependencies: decode AnalyzerArguments, call
\* analyzer::analyze_dependencies(&params.src, params.dynamic)
OpExtractDependencies(src, dynamic) ==
    OpBegin("extract_dependencies", "deps", src, dynamic)

\* op_parse: the program is serialized as it is, with no match on it
ParseResult(program) == JsonModule(program.module)

\* op_parse_ts, the match on program: the serialized AST, or the serialized
\* message.to_string()
ParseTsResult(program) ==
    IF program.tag = "Ok" THEN JsonModule(program.module)
    ELSE JsonString(Display(program.diagnostics))

ParseError == <<"p", "a", "r", "s", "e", "_", "e", "r", "r", "o", "r">>

ExtractResultLeaksMessage(analysis) ==
    IF analysis.tag = "Deps" THEN JsonList(analysis.deps)
    ELSE JsonString(Display(analysis.diagnostics))

\* ops_extract_dependencies, the match on the analysis: the serialized
\* dependencies, or the serialized "parse_error"
ExtractResult(analysis) ==
    IF analysis.tag = "Deps" THEN JsonList(analysis.deps)
    ELSE JsonString(ParseError)

\* op_parse, after parse_js returned a program: result, then
\* result_box = serde_json::to_vec(&result), Op::Sync(result_box)
OpParseReturn ==
    /\ stack = <<>>
    /\ op.name = "parse"
    /\ done.ret.tag = "Ok"
    /\ opout' = [name |-> op.name, src |-> op.src, dynamic |-> op.dynamic,
                 result |-> done.ret, out |-> JsonString(ParseResult(done.ret))]
    /\ op' = NoOp
    /\ UNCHANGED <<buffered_error, source_map, active, stack, ncalls, emitted,
                   failures, delivered, done>>

\* parse_js has a program to return only when the parse succeeded; when it
\* failed the operation ends with no Op value
OpParseNoProgram ==
    /\ stack = <<>>
    /\ op.name = "parse"
    /\ done.ret.tag # "Ok"
    /\ op' = NoOp
    /\ UNCHANGED <<buffered_error, source_map, active, stack, ncalls, opout, emitted,
                   failures, delivered, done>>

\* op_parse_ts, after parse_ts returned: result, then
\* result_box = serde_json::to_vec(&result), Op::Sync(result_box)
OpParseTsReturn ==
    /\ stack = <<>>
    /\ op.name = "parse_ts"
    /\ opout' = [name |-> op.name, src |-> op.src, dynamic |-> op.dynamic,
                 result |-> done.ret, out |-> JsonString(ParseTsResult(done.ret))]
    /\ op' = NoOp
    /\ UNCHANGED <<buffered_error, source_map, active, stack, ncalls, emitted,
                   failures, delivered, done>>

\* ops_extract_dependencies, after analyze_dependencies returned
OpExtractDependenciesReturn ==
    /\ stack = <<>>
    /\ op.name = "extract_dependencies"
    /\ opout' = [name |-> op.name, src |-> op.src, dynamic |-> op.dynamic,
                 result |-> done.ret, out |-> JsonString(ExtractResult(done.ret))]
    /\ op' = NoOp
    /\ UNCHANGED <<buffered_error, source_map, active, stack, ncalls, emitted,
                   failures, delivered, done>>

\* -------------------------------------------------------- specifications
ParseSteps ==
    \/ GlobalsSet
    \/ NewSourceFile
    \/ ParseItem
    \/ ParseEmit
    \/ ParseFail
    \/ ParseEnd
    \/ MapErr
    \/ Callback
    \/ GlobalsReset

\* parse_module used directly, on long-lived parsers
Next ==
    \/ \E p \in Parsers, src \in Sources : Call(p, src, "id")
    \/ ParseSteps

Spec == Init /\ [][Next]_vars

\* parse_module used directly, by continuations that may parse again
NextNested ==
    \/ \E p \in Parsers, src \in NestSources, cb \in {"is_ok", "nest"} : Call(p, src, cb)
    \/ \E q \in Parsers, src \in NestSources, cb \in {"is_ok", "nest"} :
            CallbackNest(q, src, cb)
    \/ CallbackResume
    \/ ParseSteps

SpecNested == Init /\ [][NextNested]_vars

\* parse_module used through the plugin operations
NextOps ==
    \/ \E src \in OpSources : OpParse(src)
    \/ \E src \in OpSources : OpParseTs(src)
    \/ \E src \in OpSources, dynamic \in BOOLEAN : OpExtractDependencies(src, dynamic)
    \/ OpParseReturn
    \/ OpParseNoProgram
    \/ OpParseTsReturn
    \/ OpExtractDependenciesReturn
    \/ ParseSteps

SpecOps == Init /\ [][NextOps]_vars

\* ---------------------------------------------------------------- claims
IsPrefix(a, b) == Len(a) <= Len(b) /\ SubSeq(b, 1, Len(a)) = a

\* a source text with no syntax error in it
Valid(src) == \A i \in 1..Len(src) : src[i] = "dyn"

Messages(diagnostics) == [i \in 1..Len(diagnostics) |-> diagnostics[i].message]

RECURSIVE FreshRun(_, _, _)
\* the outcome of parsing src on an AstParser nothing was parsed on before:
\* the messages reported up to position i, and how the parser ended
FreshRun(src, i, msgs) ==
    IF i > Len(src) THEN [tag |-> "Ok", messages |-> <<>>]
    ELSE IF src[i] = "fatal" THEN [tag |-> "Err", messages |-> msgs]
    ELSE IF src[i] = "dyn" THEN FreshRun(src, i + 1, msgs)
    ELSE FreshRun(src, i + 1, Append(msgs, Message(src[i])))

\* C1: for every syntactically invalid input, parse_module delivers Err to
\* the continuation and the buffer it carries holds at least one record,
\* also when the only problem is the error the parser returned.
C1_InvalidInputFailsWithRecords ==
    (delivered.p # 0 /\ ~Valid(delivered.src)) =>
        /\ delivered.result.tag = "Err"
        /\ Len(delivered.result.diagnostics) >= 1

\* C2: for every syntactically valid input, parse_module delivers Ok(Module)
\* and the parser's buffered_error observed after the call is empty.
C2_ValidInputSucceedsWithEmptyBuffer ==
    (done.p # 0 /\ Valid(done.src)) =>
        /\ done.result.tag = "Ok"
        /\ done.buffer = <<>>

\* C3: the outcome delivered for a source text (Ok, or Err with the records
\* of its buffer) is the outcome of parsing that text on a freshly
\* constructed AstParser, and no record of an earlier call (of another
\* source file) is in a later call's Err buffer.
C3_OutcomeAsOnFreshParser ==
    delivered.p # 0 =>
        LET fresh == FreshRun(delivered.src, 1, <<>>) IN
        /\ delivered.result.tag = fresh.tag
        /\ delivered.result.tag = "Err" =>
            /\ Messages(delivered.result.diagnostics) = fresh.messages
            /\ \A i \in 1..Len(delivered.result.diagnostics) :
                   delivered.result.diagnostics[i].file = source_map[delivered.p]

\* C4: every parse_module call invokes the continuation exactly once, with
\* Ok(Module) or Err(SwcDiagnosticBuffer), and returns the value the
\* continuation returned: a call that returned invoked it once and returned
\* its value, and no call in progress has invoked it twice or is past the
\* continuation without having invoked it.
C4_ContinuationOnceAndReturned ==
    /\ done.p # 0 =>
        /\ done.cbcalls = 1
        /\ done.cb = "nest" => done.ret = done.result
        /\ done.cb = "is_ok" =>
               done.ret = [NoResult EXCEPT
                              !.tag = IF done.result.tag = "Ok" THEN "true" ELSE "false"]
    /\ delivered.p # 0 => delivered.result.tag \in {"Ok", "Err"}
    /\ \A i \in 1..Len(stack) :
        /\ stack[i].cbcalls = (IF stack[i].pc \in {"in_callback", "reset"} THEN 1 ELSE 0)
        /\ stack[i].pc = "reset" => stack[i].parse_result.tag \in {"Ok", "Err"}

C4_Witness ==
    /\ done.p # 0
    /\ done.depth = 2
    /\ done.result.tag = "Err"
    /\ stack # <<>>
    /\ Top.pc = "reset"
    /\ Top.parse_result.tag = "Ok"

\* the bytes of "parse_error" serialized to a JSON string and that string
\* serialized again
SentinelBytes ==
    <<"\"", "\\", "\"", "p", "a", "r", "s", "e", "_", "e", "r", "r", "o", "r",
      "\\", "\"", "\"">>

\* C5: extract_dependencies returns the sentinel "parse_error" exactly when
\* the parse failed, whatever the diagnostics and the dynamic flag, and the
\* serialized dependency list otherwise; never the one for the other.
C5_SentinelOnEveryFailure ==
    opout.name = "extract_dependencies" =>
        /\ delivered.result.tag \in {"Ok", "Err"}
        /\ delivered.result.tag = "Err" <=> opout.out = SentinelBytes
        /\ delivered.result.tag = "Ok" =>
            /\ opout.result.tag = "Deps"
            /\ opout.out = JsonString(JsonList(opout.result.deps))
            /\ Len(opout.result.deps) =
                   (IF opout.dynamic THEN Len(delivered.result.module) ELSE 0)

C5_Witness ==
    /\ opout.name = "extract_dependencies"
    /\ opout.dynamic
    /\ delivered.result.tag = "Err"
    /\ Len(delivered.result.diagnostics) >= 2
    /\ opout.out = SentinelBytes

RECURSIVE CommaSeparated(_, _)
\* the messages of the records from the i-th on, a "," before each but the first
CommaSeparated(diagnostics, i) ==
    IF i > Len(diagnostics) THEN <<>>
    ELSE (IF i > 1 THEN <<",">> ELSE <<>>) \o diagnostics[i].message
         \o CommaSeparated(diagnostics, i + 1)

\* C6: parse_ts returns the serialized Module when the parse succeeded, and
\* when it failed the error message string made of the messages of the Err
\* buffer's records, in buffer order, joined with ",".
C6_ParseTsMessageOnFailure ==
    opout.name = "parse_ts" =>
        /\ delivered.result.tag \in {"Ok", "Err"}
        /\ delivered.result.tag = "Ok" =>
               opout.out = JsonString(JsonModule(delivered.result.module))
        /\ delivered.result.tag = "Err" =>
               opout.out = JsonString(JsonString(
                               CommaSeparated(delivered.result.diagnostics, 1)))

C6_Witness ==
    /\ opout.name = "parse_ts"
    /\ delivered.result.tag = "Err"
    /\ Len(delivered.result.diagnostics) = 2
    /\ delivered.result.diagnostics[1].message # delivered.result.diagnostics[2].message
    /\ opout.out = <<"\"", "\\", "\"", "E", "2", ",", "E", "1", "\\", "\"", "\"">>

\* C7: the diagnostic buffer is append-only and in detection order: no step
\* removes, reorders or rewrites a record, and a step that emits adds
\* exactly the emitted record at the end.
C7_BufferAppendOnly ==
    [][\A p \in Parsers :
        /\ IsPrefix(buffered_error[p], buffered_error'[p])
        /\ IF emitted'[p] # emitted[p]
           THEN buffered_error'[p] =
                    Append(buffered_error[p], emitted'[p][Len(emitted'[p])])
           ELSE buffered_error'[p] = buffered_error[p]]_vars

C7_Witness ==
    \E p \in Parsers :
        /\ Len(buffered_error[p]) >= 3
        /\ buffered_error[p][1].file # buffered_error[p][3].file
        /\ failures[p] # <<>>
        /\ done.result.tag = "Ok"

\* C8: the parser's Globals is the active scope from GLOBALS.set to the end
\* of the closure (registration, parsing, continuation) and at no other
\* time on its account; after every call, failed or not, the active scope
\* is the one that was active before the call.
C8_GlobalsScopedToCall ==
    /\ done.p # 0 => done.after = done.before
    /\ stack = <<>> => active = NoGlobals
    /\ stack # <<>> =>
        active = (IF Top.pc # "set" THEN Top.p
                  ELSE IF Len(stack) = 1 THEN NoGlobals
                  ELSE stack[Len(stack) - 1].p)

C8_Witness ==
    /\ done.p # 0
    /\ done.depth = 2
    /\ done.result.tag = "Err"
    /\ done.before # NoGlobals
    /\ done.before # done.p
    /\ active = done.before

\* C9: building the Err value leaves the live buffer as it was, and an Err
\* value that was delivered stays what it was whatever is emitted later.
C9_FailureIsACopy ==
    [][/\ (Running("map_err") /\ Top.parse_result.tag = "Builder")
            => buffered_error' = buffered_error
       /\ \A p \in Parsers : IsPrefix(failures[p], failures'[p])]_vars

C9_Witness ==
    \E p \in Parsers :
        /\ Len(failures[p]) = 1
        /\ failures[p][1] # <<>>
        /\ Len(buffered_error[p]) > Len(failures[p][1])
        /\ IsPrefix(failures[p][1], buffered_error[p])

\* C10: the Err buffer of a failed call is the whole live buffer at that
\* moment: every record emitted through the handler since AstParser::new()
\* and not the cancelled parser error; so of two failed parses on one
\* AstParser the earlier buffer is a prefix of the later.
C10_FailureIsWholeBuffer ==
    /\ delivered.result.tag = "Err" =>
        /\ delivered.result.diagnostics = delivered.live
        /\ delivered.result.diagnostics = emitted[delivered.p]
        /\ \A i \in 1..Len(delivered.result.diagnostics) :
               delivered.result.diagnostics[i].message # Message("fatal")
    /\ \A p \in Parsers : \A i, j \in 1..Len(failures[p]) :
           i < j => IsPrefix(failures[p][i], failures[p][j])

C10_Witness ==
    \E p \in Parsers :
        /\ Len(failures[p]) = 2
        /\ failures[p][1] # <<>>
        /\ Len(failures[p][2]) > Len(failures[p][1])
        /\ delivered.result.tag = "Err"
        /\ delivered.result.diagnostics = failures[p][2]

====
